---- MODULE Spec2Model ----
(***************************************************************************)
(* The four patch scripts of the repository, each modelled as one run on   *)
(* the files it opens:                                                     *)
(*   add_pawnsposes_ai.py       inserts new_code before the export line    *)
(*   check_parser.py            locates a function and prints it           *)
(*   fix_parser.py              replaces a function found by a regex       *)
(*   update_training_section.py replaces the text between two markers      *)
(*                                                                         *)
(* A document is a sequence of characters.  The characters of the model    *)
(* are the lexical pieces the scripts' literals and patterns are made of:  *)
(*   "nl"    a newline                  "sp"    another whitespace char    *)
(*   "x"     any other text                                                *)
(*   "exp" "rep"      'export default ' 'Reports;'                         *)
(*   "hdr"   '// ... Helper: Parse weaknesses from unified response'       *)
(*   "decl"  'const parseWeaknessesFromUnified'                            *)
(*   "sig"   ' = (weaknessesText) => {'                                    *)
(*   "ret"   'return weaknesses;'       "close" '};'                       *)
(*   "gem"   'const parseUnifiedGeminiResponse = (...) => {'               *)
(*   "panel" "title"  the two lines of start_marker                        *)
(*   "divc"  "back"   the first line and the rest of end_marker            *)
(***************************************************************************)
EXTENDS Integers, Sequences, FiniteSets, TLC

VARIABLES reportsJs, displayJs, fixParserTxt, trainingTxt, last, writes,
          orig, addRuns, fixWrote

vars == <<reportsJs, displayJs, fixParserTxt, trainingTxt, last, writes,
          orig, addRuns, fixWrote>>

\* Bounds of the model.
MaxSegs == 3
MaxWrites == 2

Max(a, b) == IF a >= b THEN a ELSE b

(***************************************************************************)
(* Python string primitives.  Offsets are 0-based as in Python.            *)
(***************************************************************************)

\* s[a:b] for 0 <= a, b
Slice(s, a, b) == SubSeq(s, a + 1, IF b > Len(s) THEN Len(s) ELSE b)

\* s[a:]
SliceFrom(s, a) == SubSeq(s, a + 1, Len(s))

RECURSIVE FindFrom(_, _, _)
FindFrom(s, sub, i) ==
    IF i + Len(sub) > Len(s) THEN -1
    ELSE IF SubSeq(s, i + 1, i + Len(sub)) = sub THEN i
    ELSE FindFrom(s, sub, i + 1)

\* str.find(sub, start): lowest offset >= start of sub in s, or -1.
\* A negative start counts from the end of s.
StrFind(s, sub, start) ==
    FindFrom(s, sub, IF start < 0 THEN Max(Len(s) + start, 0) ELSE start)

\* sub in s
StrContains(s, sub) == StrFind(s, sub, 0) # -1

\* str.replace(old, new): every non-overlapping occurrence, left to right.
RECURSIVE StrReplace(_, _, _)
StrReplace(s, old, new) ==
    LET i == StrFind(s, old, 0)
    IN  IF i = -1 THEN s
        ELSE Slice(s, 0, i) \o new
             \o StrReplace(SliceFrom(s, i + Len(old)), old, new)

(***************************************************************************)
(* The regular expressions, matched as Python's backtracking matcher does. *)
(***************************************************************************)

Whitespace == {"nl", "sp"}

Lit(c) == [k |-> "lit", c |-> c]
WsStar == [k |-> "ws*", c |-> ""]       \* \s*        greedy
LazyAny == [k |-> "any*?", c |-> ""]    \* [\s\S]*?   lazy
Bol == [k |-> "bol", c |-> ""]          \* ^

NoMatch == [start |-> -1, end |-> -1]

\* End offset of the first match, in backtracking order, of pat[i..] at pos.
RECURSIVE MatchAt(_, _, _, _, _)
MatchAt(pat, i, s, pos, multiline) ==
    IF i > Len(pat) THEN pos
    ELSE LET e == pat[i]
             rest == MatchAt(pat, i + 1, s, pos, multiline)
         IN  CASE e.k = "lit" ->
                    IF pos < Len(s) /\ s[pos + 1] = e.c
                    THEN MatchAt(pat, i + 1, s, pos + 1, multiline)
                    ELSE -1
               [] e.k = "bol" ->
                    IF pos = 0 \/ (multiline /\ s[pos] = "nl")
                    THEN rest
                    ELSE -1
               [] e.k = "ws*" ->
                    IF pos < Len(s) /\ s[pos + 1] \in Whitespace
                    THEN LET more == MatchAt(pat, i, s, pos + 1, multiline)
                         IN  IF more # -1 THEN more ELSE rest
                    ELSE rest
               [] e.k = "any*?" ->
                    IF rest # -1 THEN rest
                    ELSE IF pos < Len(s)
                         THEN MatchAt(pat, i, s, pos + 1, multiline)
                         ELSE -1

RECURSIVE SearchFrom(_, _, _, _)
SearchFrom(pat, s, start, multiline) ==
    IF start > Len(s) THEN NoMatch
    ELSE LET e == MatchAt(pat, 1, s, start, multiline)
         IN  IF e # -1 THEN [start |-> start, end |-> e]
             ELSE SearchFrom(pat, s, start + 1, multiline)

\* re.search(pattern, string, flags)
ReSearch(pat, s, multiline) == SearchFrom(pat, s, 0, multiline)

(***************************************************************************)
(* The literals of the scripts.                                            *)
(***************************************************************************)

Anchor == <<"exp", "rep">>

\* new_code: opens with a newline, ends with '};' and a blank line.
NewCode == <<"nl", "x", "nl", "close", "nl", "nl">>

\* A replacement that puts the block after the export line.
InsertionAfter == Anchor \o <<"nl">> \o NewCode

\* new_code + '\nexport default Reports;'
Insertion == NewCode \o <<"nl">> \o Anchor

CheckPattern == <<Lit("gem"), LazyAny, Bol, Lit("close")>>

FixPattern == <<Lit("hdr"), WsStar, Lit("nl"), Lit("decl"), Lit("sig"),
                LazyAny, Lit("ret"), WsStar, Lit("nl"), Lit("close")>>

SimplePattern == <<Lit("decl")>>

StartMarker == <<"panel", "title">>

EndMarker == <<"divc", "back">>

\* '\n        </div>\n\n        {/* Back to Reports Button */}'
EndTail == <<"back">>

(***************************************************************************)
(* The scripts.  Each takes the files it reads and the state of the file   *)
(* system ("ok", "unreadable": an open for reading raises, "unwritable":   *)
(* the open for writing raises) and yields the target file after the run,  *)
(* whether it was written, the number it printed and the exit status.      *)
(***************************************************************************)

IOStates == {"ok", "unreadable", "unwritable"}

\* An uncaught exception: traceback, exit status 1.
Crash(content) ==
    [file |-> content, wrote |-> FALSE, outcome |-> "io_error",
     msg |-> "Traceback", count |-> -1, exit |-> 1,
     start_idx |-> -1, end_idx |-> -1]

\* The else branch: a message, then the script ends normally.
NotFound(content, msg, s, e) ==
    [file |-> content, wrote |-> FALSE, outcome |-> "not_found",
     msg |-> msg, count |-> -1, exit |-> 0, start_idx |-> s, end_idx |-> e]

\* The if branch, run to its last print.
Done(file, wrote, msg, count, s, e) ==
    [file |-> file, wrote |-> wrote, outcome |-> "ok",
     msg |-> msg, count |-> count, exit |-> 0, start_idx |-> s, end_idx |-> e]

\* A variant that skips the insert when the block is already there.
AddPawnsposesAiOnce(content, io) ==
    IF io = "unreadable" THEN Crash(content)
    ELSE IF StrContains(content, Anchor) /\ ~StrContains(content, NewCode)
    THEN IF io = "unwritable" THEN Crash(content)
         ELSE Done(StrReplace(content, Anchor, Insertion), TRUE,
                   "Successfully added Pawnsposes AI functions",
                   Len(NewCode), -1, -1)
    ELSE IF StrContains(content, Anchor)
    THEN Done(content, FALSE, "Already added", 0, -1, -1)
    ELSE NotFound(content, "Could not find export statement", -1, -1)

AddPawnsposesAi(content, io) ==
    IF io = "unreadable" THEN Crash(content)
    ELSE IF StrContains(content, Anchor)
    THEN IF io = "unwritable" THEN Crash(content)
         ELSE Done(StrReplace(content, Anchor, Insertion), TRUE,
                   "Successfully added Pawnsposes AI functions",
                   Len(NewCode), -1, -1)
    ELSE NotFound(content, "Could not find export statement", -1, -1)

\* A variant that writes the function it found back to the file.
CheckParserWritesBack(content, io) ==
    IF io = "unreadable" THEN Crash(content)
    ELSE LET match == ReSearch(CheckPattern, content, TRUE)
         IN  IF match # NoMatch
             THEN Done(Slice(content, match.start, match.end), TRUE,
                       "Function length", match.end - match.start,
                       match.start, match.end)
             ELSE NotFound(content, "Function not found", -1, -1)

CheckParser(content, io) ==
    IF io = "unreadable" THEN Crash(content)
    ELSE LET match == ReSearch(CheckPattern, content, TRUE)
         IN  IF match # NoMatch
             THEN Done(content, FALSE,
                       "Function length", match.end - match.start,
                       match.start, match.end)
             ELSE NotFound(content, "Function not found", -1, -1)

\* A variant that inserts at the match without removing it.
FixParserKeepsOld(content, new_function, io) ==
    IF io = "unreadable" THEN Crash(content)
    ELSE LET match == ReSearch(FixPattern, content, FALSE)
         IN  IF match # NoMatch
             THEN IF io = "unwritable" THEN Crash(content)
                  ELSE Done(Slice(content, 0, match.start) \o new_function
                              \o SliceFrom(content, match.start),
                            TRUE, "Function replaced successfully!",
                            match.end - match.start, match.start, match.end)
             ELSE NotFound(content, "Function not found!", -1, -1)

FixParser(content, new_function, io) ==
    IF io = "unreadable" THEN Crash(content)
    ELSE LET match == ReSearch(FixPattern, content, FALSE)
         IN  IF match # NoMatch
             THEN IF io = "unwritable" THEN Crash(content)
                  ELSE Done(Slice(content, 0, match.start) \o new_function
                              \o SliceFrom(content, match.end),
                            TRUE, "Function replaced successfully!",
                            match.end - match.start, match.start, match.end)
             ELSE IF ReSearch(SimplePattern, content, FALSE) # NoMatch
                  THEN NotFound(content,
                         "Found function declaration, but full pattern didn't match",
                         -1, -1)
                  ELSE NotFound(content,
                         "Function declaration not found at all", -1, -1)

\* A variant whose test is 'or' where the script has 'and'.
UpdateTrainingSectionOr(content, replacement, io) ==
    IF io = "unreadable" THEN Crash(content)
    ELSE LET start_idx == StrFind(content, StartMarker, 0)
             end_idx == StrFind(content, EndMarker, start_idx)
         IN  IF start_idx # -1 \/ end_idx # -1
             THEN IF io = "unwritable" THEN Crash(content)
                  ELSE Done(Slice(content, 0, Max(start_idx, 0))
                              \o replacement \o EndTail
                              \o SliceFrom(content, Max(end_idx, 0) + Len(EndMarker)),
                            TRUE, "Successfully updated training options section",
                            end_idx - start_idx, start_idx, end_idx)
             ELSE NotFound(content, "Could not find section",
                           start_idx, end_idx)

\* A variant that looks for the end marker from the top of the file.
UpdateTrainingSectionFromTop(content, replacement, io) ==
    IF io = "unreadable" THEN Crash(content)
    ELSE LET start_idx == StrFind(content, StartMarker, 0)
             end_idx == StrFind(content, EndMarker, 0)
         IN  IF start_idx # -1 /\ end_idx # -1
             THEN IF io = "unwritable" THEN Crash(content)
                  ELSE Done(Slice(content, 0, start_idx)
                              \o replacement \o EndTail
                              \o SliceFrom(content, end_idx + Len(EndMarker)),
                            TRUE, "Successfully updated training options section",
                            end_idx - start_idx, start_idx, end_idx)
             ELSE NotFound(content, "Could not find section",
                           start_idx, end_idx)

\* A variant that keeps the end marker's text after the new section.
UpdateTrainingSectionKeepsEnd(content, replacement, io) ==
    IF io = "unreadable" THEN Crash(content)
    ELSE LET start_idx == StrFind(content, StartMarker, 0)
             end_idx == StrFind(content, EndMarker, start_idx)
         IN  IF start_idx # -1 /\ end_idx # -1
             THEN IF io = "unwritable" THEN Crash(content)
                  ELSE Done(Slice(content, 0, start_idx)
                              \o replacement \o EndTail
                              \o SliceFrom(content, end_idx),
                            TRUE, "Successfully updated training options section",
                            end_idx - start_idx, start_idx, end_idx)
             ELSE NotFound(content, "Could not find section",
                           start_idx, end_idx)

UpdateTrainingSection(content, replacement, io) ==
    IF io = "unreadable" THEN Crash(content)
    ELSE LET start_idx == StrFind(content, StartMarker, 0)
             end_idx == StrFind(content, EndMarker, start_idx)
         IN  IF start_idx # -1 /\ end_idx # -1
             THEN IF io = "unwritable" THEN Crash(content)
                  ELSE Done(Slice(content, 0, start_idx)
                              \o replacement \o EndTail
                              \o SliceFrom(content, end_idx + Len(EndMarker)),
                            TRUE, "Successfully updated training options section",
                            end_idx - start_idx, start_idx, end_idx)
             ELSE NotFound(content, "Could not find section",
                           start_idx, end_idx)

(***************************************************************************)
(* The files the scripts find on disk.                                     *)
(***************************************************************************)

RECURSIVE Concats(_, _)
Concats(segs, n) ==
    IF n = 0 THEN {<<>>}
    ELSE LET shorter == Concats(segs, n - 1)
         IN  shorter \cup {d \o g : d \in shorter, g \in segs}

\* The pieces Reports.js and ReportDisplay.js are put together from: the
\* head and the tail of parseWeaknessesFromUnified (the tail with a blank
\* after the return statement), the whole function, the export line, the
\* head of parseUnifiedGeminiResponse, the markers, and other text.
FnHead == <<"hdr", "nl", "decl", "sig">>
FnTail == <<"ret", "sp", "nl", "close">>

ReportsSegs ==
    {<<"x">>, <<"gem">>, Anchor, FnHead, FnTail, FnHead \o FnTail}

DisplaySegs ==
    {<<"x">>, <<"panel">>, <<"divc">>, StartMarker, EndMarker}

ReportsDocs == Concats(ReportsSegs, MaxSegs)
DisplayDocs == Concats(DisplaySegs, MaxSegs)

\* Contents of fix_parser.txt and of TRAINING_OPTIONS_UPDATE.txt.
NewFunctions == {<<"x">>, FnHead \o FnTail}
Replacements == {<<>>, StartMarker \o <<"x", "divc">>}

NoRun ==
    [script |-> "none", pre |-> <<>>, wrote |-> FALSE, outcome |-> "none",
     msg |-> "", count |-> -1, exit |-> 0, start_idx |-> -1, end_idx |-> -1]

Ran(script, pre, r) ==
    [script |-> script, pre |-> pre, wrote |-> r.wrote, outcome |-> r.outcome,
     msg |-> r.msg, count |-> r.count, exit |-> r.exit,
     start_idx |-> r.start_idx, end_idx |-> r.end_idx]

Init ==
    /\ \/ /\ reportsJs \in ReportsDocs
          /\ fixParserTxt \in NewFunctions
          /\ displayJs = <<>>
          /\ trainingTxt = <<>>
       \/ /\ displayJs \in DisplayDocs
          /\ trainingTxt \in Replacements
          /\ reportsJs = <<>>
          /\ fixParserTxt = <<"x">>
    /\ orig = reportsJs
    /\ last = NoRun
    /\ writes = 0
    /\ addRuns = 0
    /\ fixWrote = FALSE

(***************************************************************************)
(* One action per script: a whole run, from the reads to the last print.   *)
(***************************************************************************)

RunAddPawnsposesAi ==
    /\ writes < MaxWrites
    /\ \E io \in IOStates :
         LET r == AddPawnsposesAi(reportsJs, io)
         IN  /\ reportsJs' = r.file
             /\ last' = Ran("add_pawnsposes_ai", reportsJs, r)
             /\ writes' = IF r.wrote THEN writes + 1 ELSE writes
             /\ addRuns' = IF r.outcome = "ok" THEN addRuns + 1 ELSE addRuns
    /\ UNCHANGED <<displayJs, fixParserTxt, trainingTxt, orig, fixWrote>>

RunCheckParser ==
    /\ writes < MaxWrites
    /\ \E io \in IOStates :
         LET r == CheckParser(reportsJs, io)
         IN  /\ reportsJs' = r.file
             /\ last' = Ran("check_parser", reportsJs, r)
             /\ writes' = IF r.wrote THEN writes + 1 ELSE writes
    /\ UNCHANGED <<displayJs, fixParserTxt, trainingTxt, orig, addRuns,
                   fixWrote>>

RunFixParser ==
    /\ writes < MaxWrites
    /\ \E io \in IOStates :
         LET r == FixParser(reportsJs, fixParserTxt, io)
         IN  /\ reportsJs' = r.file
             /\ last' = Ran("fix_parser", reportsJs, r)
             /\ writes' = IF r.wrote THEN writes + 1 ELSE writes
             /\ fixWrote' = (fixWrote \/ r.wrote)
    /\ UNCHANGED <<displayJs, fixParserTxt, trainingTxt, orig, addRuns>>

RunUpdateTrainingSection ==
    /\ writes < MaxWrites
    /\ \E io \in IOStates :
         LET r == UpdateTrainingSection(displayJs, trainingTxt, io)
         IN  /\ displayJs' = r.file
             /\ last' = Ran("update_training_section", displayJs, r)
             /\ writes' = IF r.wrote THEN writes + 1 ELSE writes
    /\ UNCHANGED <<reportsJs, fixParserTxt, trainingTxt, orig, addRuns,
                   fixWrote>>

Next ==
    \/ RunAddPawnsposesAi
    \/ RunCheckParser
    \/ RunFixParser
    \/ RunUpdateTrainingSection

Spec == Init /\ [][Next]_vars

(***************************************************************************)
(* What the properties speak of, stated without the scripts' own searches. *)
(***************************************************************************)

\* The offsets at which sub occurs in s.
Occurrences(s, sub) ==
    {i \in 0..(Len(s) - Len(sub)) : SubSeq(s, i + 1, i + Len(sub)) = sub}

Min(S) == CHOOSE m \in S : \A n \in S : m <= n

RECURSIVE Repeat(_, _)
Repeat(s, n) == IF n = 0 THEN <<>> ELSE s \o Repeat(s, n - 1)

\* The text add_pawnsposes_ai puts in front of the export line.
Inserted == NewCode \o <<"nl">>

Tok(s, k) == IF k \in 1..Len(s) THEN s[k] ELSE "eof"

\* s[a:b] is whitespace only
AllWs(s, a, b) == \A k \in (a + 1)..b : Tok(s, k) \in Whitespace

\* The end offsets of the matches of fix_parser's pattern that start at st.
FixEnds(s, st) ==
    {en \in st..Len(s) :
        /\ Tok(s, st + 1) = "hdr"
        /\ Tok(s, en) = "close"
        /\ Tok(s, en - 1) = "nl"
        /\ \E p \in (st + 1)..en :
              /\ Tok(s, p + 1) = "nl"
              /\ Tok(s, p + 2) = "decl"
              /\ Tok(s, p + 3) = "sig"
              /\ AllWs(s, st + 1, p)
              /\ \E q \in (p + 3)..(en - 3) :
                    /\ Tok(s, q + 1) = "ret"
                    /\ AllWs(s, q + 1, en - 1)}

FixStarts(s) == {st \in 0..Len(s) : FixEnds(s, st) # {}}

\* The offsets at which check_parser's pattern matches.
CheckStarts(s) ==
    {st \in 0..Len(s) :
        /\ Tok(s, st + 1) = "gem"
        /\ \E q \in (st + 1)..Len(s) :
              Tok(s, q) = "nl" /\ Tok(s, q + 1) = "close"}

\* The end markers that begin at or after the end of the first start marker.
EndsPastStart(s) ==
    IF Occurrences(s, StartMarker) = {} THEN {}
    ELSE {j \in Occurrences(s, EndMarker) :
            j >= Min(Occurrences(s, StartMarker)) + Len(StartMarker)}

\* What a script searches for does not occur in the document it read.
ZeroOccurrences(script, doc) ==
    CASE script = "add_pawnsposes_ai" -> Occurrences(doc, Anchor) = {}
      [] script = "check_parser" -> CheckStarts(doc) = {}
      [] script = "fix_parser" -> FixStarts(doc) = {}
      [] script = "update_training_section" -> EndsPastStart(doc) = {}
      [] OTHER -> FALSE

\* The file a script patches, as it is now.
Target(script) ==
    IF script = "update_training_section" THEN displayJs ELSE reportsJs

Completed(script) == last.script = script /\ last.outcome # "io_error"

(***************************************************************************)
(* The properties.                                                         *)
(***************************************************************************)

\* C1: when 'export default Reports;' occurs exactly once in the document
\* add_pawnsposes_ai read, the document written back is the original with
\* the inserted text spliced in right before the anchor; the anchor still
\* occurs exactly once, right after the inserted text.
AnchorInsertSplices ==
    (Completed("add_pawnsposes_ai")
       /\ Cardinality(Occurrences(last.pre, Anchor)) = 1)
    => LET i == Min(Occurrences(last.pre, Anchor))
       IN  /\ last.outcome = "ok"
           /\ last.wrote
           /\ reportsJs = Slice(last.pre, 0, i) \o Inserted
                            \o SliceFrom(last.pre, i)
           /\ Occurrences(reportsJs, Anchor) = {i + Len(Inserted)}

AnchorInsertSplicesWitness ==
    /\ last.script = "add_pawnsposes_ai"
    /\ last.outcome = "ok"
    /\ Cardinality(Occurrences(last.pre, Anchor)) = 1
    /\ Min(Occurrences(last.pre, Anchor)) > 0
    /\ Min(Occurrences(last.pre, Anchor)) + Len(Anchor) < Len(last.pre)

\* C2: a run of any of the four scripts on a document in which what it
\* searches for does not occur writes nothing and leaves the file as it
\* was, and if it got to read the file it ends in the not-found branch.
NotFoundLeavesFile ==
    (last.script # "none" /\ ZeroOccurrences(last.script, last.pre))
    => /\ ~last.wrote
       /\ Target(last.script) = last.pre
       /\ last.outcome # "io_error" => last.outcome = "not_found"

NotFoundLeavesFileWitness ==
    /\ last.script = "update_training_section"
    /\ last.outcome = "not_found"
    /\ Occurrences(last.pre, StartMarker) # {}
    /\ Occurrences(last.pre, EndMarker) # {}

\* C3 as stated: after a successful update_training_section the document is
\* len(D) - (end_offset + len(end_marker) - start_offset) + len(R) long.
BracketLengthAsStated ==
    (Completed("update_training_section") /\ EndsPastStart(last.pre) # {})
    => LET s == Min(Occurrences(last.pre, StartMarker))
           e == Min(EndsPastStart(last.pre))
       IN  Len(displayJs) =
             Len(last.pre) - (e + Len(EndMarker) - s) + Len(trainingTxt)

\* C3 amended: the script appends the last part of the end marker to the
\* payload, so the document written back is
\* len(D) - (end_offset + len(end_marker) - start_offset) + len(R)
\* + len(tail) long, tail being the literal appended after the payload.
BracketLength ==
    (Completed("update_training_section") /\ EndsPastStart(last.pre) # {})
    => LET s == Min(Occurrences(last.pre, StartMarker))
           e == Min(EndsPastStart(last.pre))
       IN  /\ last.outcome = "ok"
           /\ Len(displayJs) =
                Len(last.pre) - (e + Len(EndMarker) - s)
                  + Len(trainingTxt) + Len(EndTail)

BracketLengthWitness ==
    /\ last.script = "update_training_section"
    /\ last.outcome = "ok"
    /\ Len(trainingTxt) > 0
    /\ last.end_idx > last.start_idx + Len(StartMarker)

\* C4: a run of check_parser writes nothing: Reports.js is after the run
\* what it was before, whether the pattern matched or not.
CheckParserReadOnly ==
    last.script = "check_parser"
    => /\ ~last.wrote
       /\ reportsJs = last.pre

CheckParserReadOnlyWitness ==
    /\ last.script = "check_parser"
    /\ last.outcome = "ok"
    /\ last.count < Len(last.pre)

\* C5: after n successful runs of add_pawnsposes_ai on a document in which
\* the anchor occurs once (and no other write), the file is the original
\* with n copies of the inserted text before the one anchor.
CopiesAccumulate ==
    (~fixWrote /\ Cardinality(Occurrences(orig, Anchor)) = 1
       /\ Occurrences(orig, NewCode) = {})
    => LET i == Min(Occurrences(orig, Anchor))
       IN  /\ reportsJs = Slice(orig, 0, i) \o Repeat(Inserted, addRuns)
                            \o SliceFrom(orig, i)
           /\ Occurrences(reportsJs, Anchor) = {i + addRuns * Len(Inserted)}
           /\ Cardinality(Occurrences(reportsJs, NewCode)) = addRuns

CopiesAccumulateWitness ==
    /\ addRuns >= 2
    /\ ~fixWrote
    /\ Cardinality(Occurrences(orig, Anchor)) = 1
    /\ last.script = "add_pawnsposes_ai"

\* C6 as stated: a run ends with exit status 0 exactly when it succeeded;
\* a run that did not find its region or hit an I/O failure ends non-zero.
ExitStatusTellsFailure ==
    last.script # "none" => (last.exit = 0 <=> last.outcome = "ok")

\* C7 as stated: add_pawnsposes_ai inserts before the first occurrence of
\* the anchor only: the document written back is D[0:i] + R + D[i:].
AnchorInsertFirstOnly ==
    (Completed("add_pawnsposes_ai") /\ Occurrences(last.pre, Anchor) # {})
    => LET i == Min(Occurrences(last.pre, Anchor))
       IN  reportsJs = Slice(last.pre, 0, i) \o Inserted
                         \o SliceFrom(last.pre, i)

\* C8: when update_training_section succeeds, the end marker it used begins
\* at or after the end of the start marker it used; an end marker that
\* occurs only before that makes the run end as not found.
EndMarkerPastStart ==
    Completed("update_training_section")
    => /\ last.outcome = "ok"
          => /\ last.start_idx = Min(Occurrences(last.pre, StartMarker))
             /\ last.end_idx \in Occurrences(last.pre, EndMarker)
             /\ last.end_idx >= last.start_idx + Len(StartMarker)
       /\ EndsPastStart(last.pre) = {} => last.outcome = "not_found"

EndMarkerPastStartWitness ==
    /\ last.script = "update_training_section"
    /\ last.outcome = "ok"
    /\ \E j \in Occurrences(last.pre, EndMarker) : j < last.start_idx

\* C9: when fix_parser's pattern matches, the document written back is
\* D[0:s] + new_function + D[e:], [s, e) being the leftmost match, the lazy
\* part taken as short as it can be.
FirstMatchReplaced ==
    (Completed("fix_parser") /\ FixStarts(last.pre) # {})
    => LET s == Min(FixStarts(last.pre))
           e == Min(FixEnds(last.pre, s))
       IN  /\ last.outcome = "ok"
           /\ reportsJs = Slice(last.pre, 0, s) \o fixParserTxt
                            \o SliceFrom(last.pre, e)

FirstMatchReplacedWitness ==
    /\ last.script = "fix_parser"
    /\ last.outcome = "ok"
    /\ Cardinality(FixStarts(last.pre)) >= 2
    /\ Min(FixStarts(last.pre)) > 0

\* C10 as stated: the number in the success message is the number of
\* characters affected: the length of the span update_training_section
\* removed, and the growth of the document add_pawnsposes_ai wrote.
ReportedCountIsAffected ==
    /\ (last.script = "update_training_section" /\ last.outcome = "ok")
       => last.count = last.end_idx + Len(EndMarker) - last.start_idx
    /\ (last.script = "add_pawnsposes_ai" /\ last.outcome = "ok")
       => last.count = Len(reportsJs) - Len(last.pre)

====
